---- MODULE Spec2Model ----
(***************************************************************************)
(* Ask-the-video: the page context (content script), the background       *)
(* transcript store and the side panel, as one state machine.             *)
(*                                                                         *)
(*   page context   src/unnamed/part_000                                   *)
(*   background     src/src/background/transcript-handler.ts               *)
(*   panel          src/src/App/VideoChat/VideoChat.tsx                    *)
(***************************************************************************)
EXTENDS Integers, Sequences, FiniteSets, Bags, TLC

(***************************************************************************)
(* Bounds of the model.                                                    *)
(***************************************************************************)
\* how many times the host page changes its URL in one run
MaxNav == 2
\* how many getTranscript queries the panel sends to the page in one run
MaxQuery == 1
\* how many tabs the background knows
MaxTab == 2
\* how many messages of tabs and extension pages the background handles in one run
MaxEvent == 3
\* how many pushed messages the panel handles in one run
MaxPush == 3
\* how many questions the user asks in one run
MaxAsk == 2
\* how many seekVideo commands the page handles in one run
MaxSeek == 3
\* how many caption tracks a video lists
MaxTrack == 3
\* saveCurrentChat keeps the first 50 chats
MaxStoredChats == 50
\* the timestamp pattern takes hours of at most two digits
MaxHourDigits == 2

(***************************************************************************)
(* Values.                                                                 *)
(***************************************************************************)
Null == "null"
VideoIds == {"A", "B"}

\* an optional value: null is the empty sequence, a present value x is <<x>>
None == <<>>
Some(x) == <<x>>
IsSome(o) == o # <<>>
Get(o) == o[1]

\* window.location of the tab: pathname and the query string as key/value pairs
Url(p, s) == [hostname |-> "www.youtube.com", pathname |-> p, search |-> s]
UrlA == Url("/watch", << <<"v", "A">> >>)
UrlAt == Url("/watch", << <<"v", "A">>, <<"t", "30s">> >>)
UrlB == Url("/watch", << <<"v", "B">> >>)
UrlHome == Url("/", << >>)
Urls == {UrlA, UrlAt, UrlB, UrlHome}

\* search.includes('v='): some parameter's key ends in v
SearchIncludesV(s) == \E i \in 1..Len(s) : s[i][1] = "v"

isYouTubeVideoPage(u) ==
  /\ u.hostname = "www.youtube.com"
  /\ u.pathname = "/watch"
  /\ SearchIncludesV(u.search)

\* URLSearchParams.get('v'): the value of the first v parameter, or null
getVideoId(u) ==
  IF \E i \in 1..Len(u.search) : u.search[i][1] = "v"
  THEN u.search[CHOOSE i \in 1..Len(u.search) :
                  /\ u.search[i][1] = "v"
                  /\ \A j \in 1..(i - 1) : u.search[j][1] # "v"][2]
  ELSE Null

\* TranscriptResult, the tagged outcome of extractVideoTranscript
TitleOf(v) == <<"title of", v>>
NoTitle == << >>
Success(v) == [success |-> TRUE, videoId |-> v, title |-> TitleOf(v), error |-> Null]
Failure(e) == [success |-> FALSE, videoId |-> Null, title |-> NoTitle, error |-> e]

\* what extractVideoTranscript can resolve to on a page whose URL carries
\* video id v: a success for that video or a failure; "throw" is a rejection
Outcomes(v) ==
  IF v = Null
  THEN {Some(Failure("NotOnVideoPage")), None}
  ELSE {Some(Success(v)), Some(Failure("NoCaptionsAvailable")), None}

Msg(t, p) == [type |-> t, payload |-> p]

Tabs == 1..MaxTab
\* the tab the modelled page context runs in (sender.tab.id of its messages)
PageTab == CHOOSE t \in Tabs : \A s \in Tabs : t <= s
\* tabs[0]?.id when the query finds no active tab
NoTab == 0
\* a message without payload
NoPayload == [none |-> TRUE]

\* the messages a tab's content script can send to the background
TabMessages ==
  {Msg("transcriptLoaded", Success(v)) : v \in VideoIds}
    \cup {Msg("transcriptError", [error |-> "NoCaptionsAvailable"])}
    \cup {Msg("navigationStarted", [videoId |-> v]) : v \in VideoIds}
    \cup {Msg("noVideoPage", NoPayload)}

\* the messages an extension page (the panel) can send to the background
PanelMessages ==
  {Msg("getTranscript", NoPayload), Msg("tabStateRequest", NoPayload),
   Msg("sendChatMessage", [question |-> "q"]), Msg("chatResponse", [response |-> "r"])}

(***************************************************************************)
(* State.                                                                  *)
(***************************************************************************)
VARIABLES
  \* the tab's page
  url,              \* location.href of the tab
  lastUrl,          \* the observer's lastUrl
  currentVideoId,   \* content script: currentVideoId
  transcriptCache,  \* content script: transcriptCache (optional result)
  initialized,      \* initializeContentScript has run
  timers,           \* pending setTimeout callbacks of extractAndSendTranscript
  inflight,         \* bag of extractions awaiting extractVideoTranscript
  outbox,           \* messages the page context sent with runtime.sendMessage
  getResp,          \* the page's response to the last getTranscript (optional)
  \* history
  tracing,          \* the navigation history below is recorded in this run
  last,             \* the step taken last
  navCount,         \* URL changes made by the host page
  navLog,           \* video ids of the URLs the content script saw, in order
  firedAtNav,       \* timer firings before the last URL change was observed
  outAtNav,         \* messages sent before the last URL change was observed
  fired,            \* timer firings
  fetches,          \* calls of extractVideoTranscript, per video id of the URL
  idChanged,        \* the video id of the URL has changed at some point
  initQualified,    \* initializeContentScript found a video page
  windowOpen,       \* a navigation was seen and no extraction started after it has ended
  queries,          \* getTranscript queries sent to the page
  \* the background
  bgNext,           \* index in outbox of the next message the background handles
  transcriptStore,  \* background: transcriptStore, tab id -> optional result
  chatHistoryStore, \* background: chatHistoryStore, tab id -> optional message list
  panelBox,         \* messages the background sent on to the panel
  \* the panel
  panelNext,        \* index in panelBox of the next message the panel handles
  pageState,        \* VideoChat: pageState
  transcript,       \* VideoChat: transcript (optional result)
  videoInfo,        \* VideoChat: videoInfo (optional {videoId, videoTitle})
  errorMessage,     \* VideoChat: errorMessage
  chatHistory,      \* VideoChat: chatHistory
  currentChatId,    \* VideoChat: currentChatId
  bootStage,        \* VideoChat: position of the mount effect's state request
  bootReply,        \* what the pending callback of the mount effect receives (optional)
  \* the browser's tabs and the background listener's last step
  openTabs,         \* the tabs that are open
  active,           \* the active tab of the current window, NoTab if there is none
  bgHandled,        \* messages of tabs and extension pages handled by the listener
  bgResp,           \* the listener's response to the last request (optional: none means no sendResponse)
  \* history of the listener, recorded in a run that is tracing
  bgMsg,            \* the message the listener handled last, with its sender (optional)
  bgSent,           \* the messages the listener sent on while handling it
  bgCleared,        \* the listener deleted a chat history while handling it
  reported,         \* the results each tab has reported with transcriptLoaded
  \* the panel's conversation
  loadedChatVideoId, \* VideoChat: loadedChatVideoId
  storedChats,      \* the chat list persisted under STORAGE_KEY_CHATS
  pending,          \* the question awaiting streamChatResponse (optional), with its closure
  clock,            \* Date.now()
  asked,            \* questions sent
  panelHandled,     \* pushed messages handled by handleMessage
  panelMsg,         \* the pushed message handled last (optional)
  \* the page's video element
  video,            \* document.querySelector('video') (optional {currentTime, paused})
  playCalls,        \* calls of video.play()
  seeks,            \* seekVideo commands handled
  seekMsg,          \* payload of the seekVideo command handled last (optional)
  \* argument and result of a function applied on its own
  fnArg,
  fnResult,
  \* history
  repeated          \* "yes" when the message handled last was handled twice in a row ("off": not recorded)

pageVars == <<url, lastUrl, currentVideoId, transcriptCache, initialized,
              timers, inflight, outbox, getResp>>
histVars == <<tracing, last, navCount, navLog, firedAtNav, outAtNav, fired, fetches, idChanged,
              initQualified, windowOpen, queries>>
bgVars == <<bgNext, transcriptStore, chatHistoryStore, panelBox>>
panelVars == <<panelNext, pageState, transcript, videoInfo, errorMessage,
               chatHistory, currentChatId>>
bootVars == <<bootStage, bootReply>>
tabVars == <<openTabs, active, bgHandled, bgMsg, bgSent, bgCleared, bgResp, reported>>
chatVars == <<loadedChatVideoId, storedChats, pending, clock, asked, panelHandled, panelMsg>>
dupVars == <<repeated>>
seekVars == <<video, playCalls, seeks, seekMsg>>
fnVars == <<fnArg, fnResult>>
vars == <<pageVars, histVars, bgVars, panelVars, bootVars, tabVars, chatVars, seekVars, fnVars,
          dupVars>>

VidOrNull == VideoIds \cup {Null}

FetchTotal == fetches["A"] + fetches["B"] + fetches[Null]
InFlight == BagCardinality(inflight)
IsReport(m) == m.type \in {"transcriptLoaded", "transcriptError"}
Reports(box) == Cardinality({i \in 1..Len(box) : IsReport(box[i])})

(***************************************************************************)
(* The page context (content script).                                      *)
(***************************************************************************)
\* the cache check, were it to count only a successful result as cached
CacheHit_SuccessOnly(videoId, cur, cache) ==
  videoId = cur /\ IsSome(cache) /\ Get(cache).success

\* extractAndSendTranscript, the cache check: videoId === currentVideoId && transcriptCache
CacheHit(videoId, cur, cache) == videoId = cur /\ IsSome(cache)

\* the report, were the failure branch missing
reportFor_AlwaysLoaded(result) == Msg("transcriptLoaded", result)

\* extractAndSendTranscript, the report of a resolved result
reportFor(result) ==
  IF result.success
  THEN Msg("transcriptLoaded", result)
  ELSE Msg("transcriptError", [error |-> result.error])

\* extractAndSendTranscript, the report of the catch block
thrownReport == Msg("transcriptError", [error |-> "Unknown error"])

\* the getTranscript listener's response, were the miss answered like a hit
getTranscriptResponse_SuccessOnMiss(cache) ==
  [success |-> TRUE, data |-> cache, error |-> Null]

\* the getTranscript listener's response
getTranscriptResponse(cache) ==
  IF IsSome(cache)
  THEN [success |-> TRUE, data |-> cache, error |-> Null]
  ELSE [success |-> FALSE, data |-> None, error |-> "No transcript available"]

\* the timers a handler leaves pending when it runs on URL u
ScheduleIfVideoPage(u, n) == IF isYouTubeVideoPage(u) THEN n + 1 ELSE n

\* the messages the observer callback sends when the URL changed to u
ObserverMessages(u) == << >>

\* what every run starts with, whichever part of the extension it follows
InitCommon(trace) ==
  /\ tracing = trace
  /\ url \in Urls
  /\ lastUrl = url
  /\ currentVideoId = Null
  /\ transcriptCache = None
  /\ initialized = FALSE
  /\ timers = 0
  /\ inflight = EmptyBag
  /\ outbox = << >>
  /\ getResp = None
  /\ last = "load"
  /\ navCount = 0
  /\ navLog = <<getVideoId(url)>>
  /\ firedAtNav = 0
  /\ outAtNav = 0
  /\ fired = 0
  /\ fetches = [v \in VidOrNull |-> 0]
  /\ idChanged = FALSE
  /\ initQualified = FALSE
  /\ windowOpen = FALSE
  /\ queries = 0
  /\ bgNext = 1
  /\ transcriptStore = [t \in Tabs |-> None]
  /\ chatHistoryStore = [t \in Tabs |-> None]
  /\ panelBox = << >>
  /\ panelNext = 1
  /\ transcript = None
  /\ errorMessage = Null
  /\ chatHistory = << >>
  /\ bootReply = None
  /\ openTabs = Tabs
  /\ active = PageTab
  /\ bgHandled = 0
  /\ bgMsg = None
  /\ bgSent = << >>
  /\ bgCleared = FALSE
  /\ bgResp = None
  /\ reported = [t \in Tabs |-> {}]
  /\ loadedChatVideoId = Null
  /\ pending = None
  /\ clock = 0
  /\ asked = 0
  /\ panelHandled = 0
  /\ panelMsg = None
  /\ playCalls = 0
  /\ seeks = 0
  /\ seekMsg = None
  /\ fnResult = None

\* the state after the page, the background and the panel component are constructed
InitWith(trace) ==
  /\ InitCommon(trace)
  /\ pageState = "loading"
  /\ videoInfo = None
  /\ currentChatId = Null
  /\ bootStage = "unmounted"
  /\ storedChats = << >>
  /\ video = None
  /\ fnArg = None
  /\ repeated = "off"

\* a run that records no navigation history
Init == InitWith(FALSE)
\* a run that records the navigation history
InitTraced == InitWith(TRUE)

\* the host page (a single-page application) changes location.href
Navigate(u) ==
  /\ navCount < MaxNav
  /\ u # url
  /\ url' = u
  /\ navCount' = navCount + 1
  /\ idChanged' = (idChanged \/ (tracing /\ getVideoId(u) # getVideoId(url)))
  /\ last' = "navigate"
  /\ UNCHANGED <<lastUrl, currentVideoId, transcriptCache, initialized, timers,
                 inflight, outbox, getResp>>
  /\ UNCHANGED <<tracing, navLog, firedAtNav, outAtNav, fired, fetches, initQualified, windowOpen, queries>>
  /\ UNCHANGED <<bgVars, panelVars, bootVars, tabVars>>
  /\ UNCHANGED <<chatVars, seekVars, fnVars, dupVars>>

\* initializeContentScript, were it to leave out the settle timer
initializeContentScript_NoTimer ==
  /\ ~initialized
  /\ initialized' = TRUE
  /\ outbox' = Append(outbox, Msg("sidebarLoaded", [value |-> TRUE]))
  /\ initQualified' = isYouTubeVideoPage(url)
  /\ last' = "init"
  /\ UNCHANGED <<url, lastUrl, currentVideoId, transcriptCache, timers, inflight, getResp>>
  /\ UNCHANGED <<tracing, navCount, navLog, firedAtNav, outAtNav, fired, fetches, idChanged,
                 windowOpen, queries>>
  /\ UNCHANGED <<bgVars, panelVars, bootVars, tabVars>>
  /\ UNCHANGED <<chatVars, seekVars, fnVars, dupVars>>

\* initializeContentScript
initializeContentScript ==
  /\ ~initialized
  /\ initialized' = TRUE
  /\ outbox' = Append(outbox, Msg("sidebarLoaded", [value |-> TRUE]))
  /\ timers' = ScheduleIfVideoPage(url, timers)
  /\ initQualified' = isYouTubeVideoPage(url)
  /\ last' = "init"
  /\ UNCHANGED <<url, lastUrl, currentVideoId, transcriptCache, inflight, getResp>>
  /\ UNCHANGED <<tracing, navCount, navLog, firedAtNav, outAtNav, fired, fetches, idChanged, windowOpen, queries>>
  /\ UNCHANGED <<bgVars, panelVars, bootVars, tabVars>>
  /\ UNCHANGED <<chatVars, seekVars, fnVars, dupVars>>

\* the MutationObserver callback, when location.href differs from lastUrl
ObserverTick ==
  /\ url # lastUrl
  /\ lastUrl' = url
  /\ currentVideoId' = Null
  /\ transcriptCache' = None
  /\ timers' = ScheduleIfVideoPage(url, timers)
  /\ outbox' = outbox \o ObserverMessages(url)
  /\ navLog' = IF tracing THEN Append(navLog, getVideoId(url)) ELSE navLog
  /\ firedAtNav' = IF tracing THEN fired ELSE firedAtNav
  /\ outAtNav' = IF tracing THEN Len(outbox) ELSE outAtNav
  /\ windowOpen' = (tracing /\ isYouTubeVideoPage(url))
  /\ last' = IF isYouTubeVideoPage(url) THEN "navigated" ELSE "left"
  /\ UNCHANGED <<url, initialized, inflight, getResp>>
  /\ UNCHANGED <<tracing, navCount, fired, fetches, idChanged, initQualified, queries>>
  /\ UNCHANGED <<bgVars, panelVars, bootVars, tabVars>>
  /\ UNCHANGED <<chatVars, seekVars, fnVars, dupVars>>

\* a settle timer fires: extractAndSendTranscript up to its await (or its early return)
TimerFires ==
  /\ timers > 0
  /\ timers' = timers - 1
  /\ fired' = IF tracing THEN fired + 1 ELSE fired
  /\ LET videoId == getVideoId(url) IN
       IF CacheHit(videoId, currentVideoId, transcriptCache)
       THEN /\ last' = "skip"
            /\ UNCHANGED <<inflight, fetches>>
       ELSE /\ inflight' = inflight (+) SetToBag({[videoId |-> videoId, gen |-> Len(navLog)]})
            /\ fetches' = [fetches EXCEPT ![videoId] = @ + 1]
            /\ last' = "start"
  /\ UNCHANGED <<url, lastUrl, currentVideoId, transcriptCache, initialized, outbox, getResp>>
  /\ UNCHANGED <<tracing, navCount, navLog, firedAtNav, outAtNav, idChanged, initQualified, windowOpen, queries>>
  /\ UNCHANGED <<bgVars, panelVars, bootVars, tabVars>>
  /\ UNCHANGED <<chatVars, seekVars, fnVars, dupVars>>

\* extractVideoTranscript settles: the rest of extractAndSendTranscript
ExtractionCompletes(e, o) ==
  /\ BagIn(e, inflight)
  /\ o \in Outcomes(e.videoId)
  /\ inflight' = inflight (-) SetToBag({e})
  /\ IF IsSome(o)
     THEN /\ currentVideoId' = e.videoId
          /\ transcriptCache' = o
          /\ outbox' = Append(outbox, reportFor(Get(o)))
          /\ last' = IF Get(o).success THEN "success" ELSE "failure"
     ELSE /\ outbox' = Append(outbox, thrownReport)
          /\ last' = "throw"
          /\ UNCHANGED <<currentVideoId, transcriptCache>>
  /\ windowOpen' = (windowOpen /\ e.gen # Len(navLog))
  /\ UNCHANGED <<url, lastUrl, initialized, timers, getResp>>
  /\ UNCHANGED <<tracing, navCount, navLog, firedAtNav, outAtNav, fired, fetches, idChanged, initQualified, queries>>
  /\ UNCHANGED <<bgVars, panelVars, bootVars, tabVars>>
  /\ UNCHANGED <<chatVars, seekVars, fnVars, dupVars>>

\* the getTranscript listener, were it to start an extraction on a miss
OnGetTranscript_ExtractOnMiss ==
  /\ queries < MaxQuery
  /\ queries' = queries + 1
  /\ getResp' = Some(getTranscriptResponse(transcriptCache))
  /\ last' = "getTranscript"
  /\ IF IsSome(transcriptCache)
     THEN UNCHANGED <<inflight, fetches>>
     ELSE /\ inflight' = inflight (+) SetToBag({[videoId |-> getVideoId(url), gen |-> Len(navLog)]})
          /\ fetches' = [fetches EXCEPT ![getVideoId(url)] = @ + 1]
  /\ UNCHANGED <<url, lastUrl, currentVideoId, transcriptCache, initialized, timers, outbox>>
  /\ UNCHANGED <<tracing, navCount, navLog, firedAtNav, outAtNav, fired, idChanged, initQualified,
                 windowOpen>>
  /\ UNCHANGED <<bgVars, panelVars, bootVars, tabVars>>
  /\ UNCHANGED <<chatVars, seekVars, fnVars, dupVars>>

\* the runtime.onMessage listener of the page, message type getTranscript
OnGetTranscript ==
  /\ queries < MaxQuery
  /\ queries' = queries + 1
  /\ getResp' = Some(getTranscriptResponse(transcriptCache))
  /\ last' = "getTranscript"
  /\ UNCHANGED <<url, lastUrl, currentVideoId, transcriptCache, initialized, timers,
                 inflight, outbox>>
  /\ UNCHANGED <<tracing, navCount, navLog, firedAtNav, outAtNav, fired, fetches, idChanged, initQualified,
                 windowOpen>>
  /\ UNCHANGED <<bgVars, panelVars, bootVars, tabVars>>
  /\ UNCHANGED <<chatVars, seekVars, fnVars, dupVars>>

NextPage ==
  \/ \E u \in Urls : Navigate(u)
  \/ initializeContentScript
  \/ ObserverTick
  \/ TimerFires
  \/ \E e \in BagToSet(inflight) : \E o \in Outcomes(e.videoId) : ExtractionCompletes(e, o)
  \/ OnGetTranscript

SpecPage == Init /\ [][NextPage]_vars

\* the page context, with the navigation history recorded
SpecNav == InitTraced /\ [][NextPage]_vars

(***************************************************************************)
(* The background: the runtime.onMessage listener of transcript-handler.ts *)
(***************************************************************************)
\* previousTranscript?.videoId
StoredVideoId(store, t) == IF IsSome(store[t]) THEN Get(store[t]).videoId ELSE "undefined"

\* isNewVideo, were every transcriptLoaded taken for a new video
isNewVideo_Always(store, t, payload) == TRUE

\* case transcriptLoaded: isNewVideo
isNewVideo(store, t, payload) == StoredVideoId(store, t) # payload.videoId

\* the store, were every tab's result kept under one key
StoreAfter_OneKey(store, t, m) ==
  IF m.type = "transcriptLoaded"
  THEN [store EXCEPT ![PageTab] = Some(m.payload)]
  ELSE store

\* the store after the listener handled message m of tab t
StoreAfter(store, t, m) ==
  IF m.type = "transcriptLoaded"
  THEN [store EXCEPT ![t] = Some(m.payload)]
  ELSE store

\* the chat histories after the listener handled message m of tab t
ChatStoreAfter(chats, store, t, m) ==
  IF m.type = "transcriptLoaded" /\ isNewVideo(store, t, m.payload) /\ IsSome(chats[t])
  THEN [chats EXCEPT ![t] = None]
  ELSE chats

\* the messages the listener sends on to the panel for message m
Rebroadcast(m) ==
  IF m.type \in {"transcriptLoaded", "transcriptError"} THEN <<m>> ELSE << >>

\* the background handles the next message of the page context
BackgroundReceives ==
  /\ bgNext <= Len(outbox)
  /\ LET m == outbox[bgNext] IN
       /\ transcriptStore' = StoreAfter(transcriptStore, PageTab, m)
       /\ chatHistoryStore' = ChatStoreAfter(chatHistoryStore, transcriptStore, PageTab, m)
       /\ panelBox' = panelBox \o Rebroadcast(m)
  /\ bgNext' = bgNext + 1
  /\ last' = "background"
  /\ UNCHANGED pageVars
  /\ UNCHANGED <<tracing, navCount, navLog, firedAtNav, outAtNav, fired, fetches, idChanged, initQualified,
                 windowOpen, queries>>
  /\ UNCHANGED <<panelVars, bootVars, tabVars>>
  /\ UNCHANGED <<chatVars, seekVars, fnVars, dupVars>>

(***************************************************************************)
(* The panel: handleMessage of VideoChat.tsx                               *)
(***************************************************************************)
\* currentVideoIdRef.current, kept equal to videoInfo?.videoId || null by an effect
currentVideoIdRef == IF IsSome(videoInfo) THEN Get(videoInfo).videoId ELSE Null

VideoInfoOf(data) == [videoId |-> data.videoId, videoTitle |-> data.title]

\* case transcriptLoaded
PanelTranscriptLoaded(data) ==
  /\ IF data.videoId # Null /\ data.videoId # currentVideoIdRef
     THEN /\ chatHistory' = << >>
          /\ currentChatId' = Null
     ELSE UNCHANGED <<chatHistory, currentChatId>>
  /\ transcript' = Some(data)
  /\ pageState' = "ready"
  /\ errorMessage' = Null
  /\ videoInfo' = IF data.videoId # Null THEN Some(VideoInfoOf(data)) ELSE videoInfo
  /\ loadedChatVideoId' = Null

\* case transcriptError, were a second error taken for a retry
PanelTranscriptError_Retry(payload) ==
  /\ errorMessage' = IF pageState = "error" THEN Null ELSE payload.error
  /\ pageState' = IF pageState = "error" THEN "loading" ELSE "error"
  /\ UNCHANGED <<transcript, videoInfo, chatHistory, currentChatId, loadedChatVideoId>>

\* case transcriptError
PanelTranscriptError(payload) ==
  /\ errorMessage' = IF payload.error \in {Null, ""}
                     THEN "Failed to load transcript"
                     ELSE payload.error
  /\ pageState' = "error"
  /\ UNCHANGED <<transcript, videoInfo, chatHistory, currentChatId, loadedChatVideoId>>

\* case navigationStarted, were the transcript kept
PanelNavigationStarted_KeepsTranscript(payload) ==
  LET newVideoId == payload.videoId IN
    /\ pageState' = "loading"
    /\ UNCHANGED transcript
    /\ errorMessage' = Null
    /\ loadedChatVideoId' = Null
    /\ videoInfo' = IF newVideoId # Null
                    THEN Some([videoId |-> newVideoId, videoTitle |-> NoTitle])
                    ELSE videoInfo
    /\ IF newVideoId # Null /\ newVideoId # currentVideoIdRef
       THEN /\ chatHistory' = << >>
            /\ currentChatId' = Null
       ELSE UNCHANGED <<chatHistory, currentChatId>>

\* case navigationStarted
PanelNavigationStarted(payload) ==
  LET newVideoId == payload.videoId IN
    /\ pageState' = "loading"
    /\ transcript' = None
    /\ errorMessage' = Null
    /\ loadedChatVideoId' = Null
    /\ videoInfo' = IF newVideoId # Null
                    THEN Some([videoId |-> newVideoId, videoTitle |-> NoTitle])
                    ELSE videoInfo
    /\ IF newVideoId # Null /\ newVideoId # currentVideoIdRef
       THEN /\ chatHistory' = << >>
            /\ currentChatId' = Null
       ELSE UNCHANGED <<chatHistory, currentChatId>>

\* case noVideoPage, were the conversation ended
PanelNoVideoPage_ClearsChat ==
  /\ pageState' = "no_video"
  /\ transcript' = None
  /\ videoInfo' = None
  /\ loadedChatVideoId' = Null
  /\ chatHistory' = << >>
  /\ currentChatId' = Null
  /\ UNCHANGED errorMessage

\* case noVideoPage
PanelNoVideoPage ==
  /\ pageState' = "no_video"
  /\ transcript' = None
  /\ videoInfo' = None
  /\ loadedChatVideoId' = Null
  /\ UNCHANGED <<errorMessage, chatHistory, currentChatId>>

\* case 'tabActivated', case 'refreshState'
PanelTabActivated(tabState) ==
  LET tabVideoId == IF IsSome(tabState.transcript) /\ Get(tabState.transcript).videoId # Null
                    THEN Get(tabState.transcript).videoId
                    ELSE tabState.videoId IN
    /\ pageState' = IF tabState.pageState # Null THEN tabState.pageState ELSE "no_video"
    /\ loadedChatVideoId' = Null
    /\ transcript' = tabState.transcript
    /\ videoInfo' = IF IsSome(tabState.transcript)
                    THEN Some(VideoInfoOf(Get(tabState.transcript)))
                    ELSE IF tabState.videoId # Null
                    THEN Some([videoId |-> tabState.videoId, videoTitle |-> tabState.videoTitle])
                    ELSE None
    /\ IF tabVideoId # Null /\ tabVideoId # currentVideoIdRef
       THEN /\ chatHistory' = << >>
            /\ currentChatId' = Null
       ELSE UNCHANGED <<chatHistory, currentChatId>>
    /\ UNCHANGED errorMessage

\* handleMessage
handleMessage(m) ==
  CASE m.type = "navigationStarted" -> PanelNavigationStarted(m.payload)
    [] m.type = "noVideoPage" -> PanelNoVideoPage
    [] m.type = "transcriptLoaded" -> PanelTranscriptLoaded(m.payload)
    [] m.type = "transcriptError" -> PanelTranscriptError(m.payload)
    [] m.type \in {"tabActivated", "refreshState"} -> PanelTabActivated(m.payload)
    [] OTHER -> UNCHANGED <<pageState, transcript, videoInfo, errorMessage,
                            chatHistory, currentChatId, loadedChatVideoId>>

\* the panel handles the next message the background sent on
PanelReceives ==
  /\ panelNext <= Len(panelBox)
  /\ handleMessage(panelBox[panelNext])
  /\ panelNext' = panelNext + 1
  /\ last' = "panel"
  /\ UNCHANGED pageVars
  /\ UNCHANGED <<tracing, navCount, navLog, firedAtNav, outAtNav, fired, fetches, idChanged, initQualified,
                 windowOpen, queries>>
  /\ UNCHANGED <<bgVars, bootVars, tabVars>>
  /\ UNCHANGED <<storedChats, pending, clock, asked, panelHandled, panelMsg>>
  /\ UNCHANGED <<seekVars, fnVars, dupVars>>

(***************************************************************************)
(* Page context, background and panel together.                            *)
(***************************************************************************)
NextSync ==
  \/ \E u \in Urls : Navigate(u)
  \/ initializeContentScript
  \/ ObserverTick
  \/ TimerFires
  \/ \E e \in BagToSet(inflight) : \E o \in Outcomes(e.videoId) : ExtractionCompletes(e, o)
  \/ BackgroundReceives
  \/ PanelReceives

SpecSync == InitTraced /\ [][NextSync]_vars

\* the page context from its load on, without the panel's queries
NextLoad ==
  \/ \E u \in Urls : Navigate(u)
  \/ initializeContentScript
  \/ ObserverTick
  \/ TimerFires
  \/ \E e \in BagToSet(inflight) : \E o \in Outcomes(e.videoId) : ExtractionCompletes(e, o)

\* the event loop runs every due timer and every settled promise
FairLoad ==
  /\ Init
  /\ [][NextLoad]_vars
  /\ WF_vars(TimerFires)
  /\ WF_vars(\E e \in BagToSet(inflight) : \E o \in Outcomes(e.videoId) :
               ExtractionCompletes(e, o))

(***************************************************************************)
(* The background store with several tabs: the listeners of                *)
(* transcript-handler.ts, fed by the tabs' content scripts and the panel.  *)
(***************************************************************************)
navHist == <<tracing, navCount, navLog, firedAtNav, outAtNav, fired, fetches, idChanged,
             initQualified, windowOpen, queries>>

\* the panel's handleMessage is registered (runtime.onMessage.addListener)
PanelListening == bootStage # "unmounted"

\* case getTranscript, were the first tab's result returned for every tab
BgGetTranscript_FirstTab(store, cur) ==
  IF cur # NoTab /\ IsSome(store[PageTab])
  THEN [success |-> TRUE, data |-> store[PageTab], error |-> Null]
  ELSE [success |-> FALSE, data |-> None, error |-> "No transcript available for current tab"]

\* case getTranscript: the response for the active tab cur
BgGetTranscript(store, cur) ==
  IF cur # NoTab /\ IsSome(store[cur])
  THEN [success |-> TRUE, data |-> store[cur], error |-> Null]
  ELSE [success |-> FALSE, data |-> None, error |-> "No transcript available for current tab"]

\* what the listener passes to sendResponse for message m; none if it never calls it
BgResponse(store, cur, m) ==
  IF m.type = "getTranscript" THEN Some(BgGetTranscript(store, cur)) ELSE None

\* the entry pushed by case sendChatMessage / case chatResponse
ChatEntry(m) ==
  IF m.type = "sendChatMessage"
  THEN [role |-> "user", content |-> m.payload.question]
  ELSE [role |-> "assistant", content |-> m.payload.response]

\* the chat histories after the listener handled message m of an extension page
ChatAppend(chats, cur, m) ==
  IF m.type \in {"sendChatMessage", "chatResponse"} /\ cur # NoTab
  THEN [chats EXCEPT ![cur] = Some((IF IsSome(@) THEN Get(@) ELSE << >>) \o <<ChatEntry(m)>>)]
  ELSE chats

\* the listener handles message m sent by the content script of tab t
TabMessageArrives(t, m) ==
  /\ bgHandled < MaxEvent
  /\ t \in openTabs
  /\ transcriptStore' = StoreAfter(transcriptStore, t, m)
  /\ chatHistoryStore' = ChatStoreAfter(chatHistoryStore, transcriptStore, t, m)
  /\ panelBox' = IF PanelListening THEN panelBox \o Rebroadcast(m) ELSE panelBox
  /\ bgHandled' = bgHandled + 1
  /\ IF tracing
     THEN /\ bgSent' = Rebroadcast(m)
          /\ bgCleared' = (chatHistoryStore' # chatHistoryStore)
          /\ bgMsg' = Some([tab |-> t, type |-> m.type, payload |-> m.payload])
          /\ reported' = IF m.type = "transcriptLoaded"
                         THEN [reported EXCEPT ![t] = @ \cup {m.payload}]
                         ELSE reported
     ELSE UNCHANGED <<bgSent, bgCleared, bgMsg, reported>>
  /\ repeated' = IF repeated = "off" THEN "off"
                 ELSE IF /\ last = "tabMessage"
                         /\ bgMsg = Some([tab |-> t, type |-> m.type, payload |-> m.payload])
                      THEN "yes"
                      ELSE "no"
  /\ last' = "tabMessage"
  /\ UNCHANGED <<openTabs, active, bgResp, bgNext>>
  /\ UNCHANGED <<pageVars, navHist, panelVars, bootVars>>
  /\ UNCHANGED <<chatVars, seekVars, fnVars>>

\* the listener's work on message m of an extension page (sender.tab undefined)
ListenerOnPanelMessage(m) ==
  /\ chatHistoryStore' = ChatAppend(chatHistoryStore, active, m)
  /\ bgResp' = BgResponse(transcriptStore, active, m)
  /\ IF tracing
     THEN /\ bgSent' = << >>
          /\ bgCleared' = FALSE
          /\ bgMsg' = Some([tab |-> active, type |-> m.type, payload |-> m.payload])
     ELSE UNCHANGED <<bgSent, bgCleared, bgMsg>>
  /\ UNCHANGED <<transcriptStore, panelBox, bgNext, openTabs, active, reported>>
  /\ UNCHANGED <<pageVars, navHist, panelVars>>
  /\ UNCHANGED <<chatVars, seekVars, fnVars, dupVars>>

\* the listener handles message m sent by an extension page
PanelMessageArrives(m) ==
  /\ bgHandled < MaxEvent
  /\ ListenerOnPanelMessage(m)
  /\ bgHandled' = bgHandled + 1
  /\ last' = "panelMessage"
  /\ UNCHANGED bootVars

\* the tabs.onRemoved listener, were it to keep the chat history
onRemoved_KeepsChat(t) ==
  /\ t \in openTabs
  /\ transcriptStore' = [transcriptStore EXCEPT ![t] = None]
  /\ openTabs' = openTabs \ {t}
  /\ active' \in (IF active # t THEN {active}
                  ELSE IF openTabs' = {} THEN {NoTab} ELSE openTabs')
  /\ last' = "tabRemoved"
  /\ UNCHANGED <<chatHistoryStore, bgNext, panelBox, bgHandled, bgMsg, bgSent, bgCleared, bgResp,
                 reported>>
  /\ UNCHANGED <<pageVars, navHist, panelVars, bootVars>>
  /\ UNCHANGED <<chatVars, seekVars, fnVars, dupVars>>

\* tab t closes: the tabs.onRemoved listener
onRemoved(t) ==
  /\ t \in openTabs
  /\ transcriptStore' = [transcriptStore EXCEPT ![t] = None]
  /\ chatHistoryStore' = [chatHistoryStore EXCEPT ![t] = None]
  /\ openTabs' = openTabs \ {t}
  /\ active' \in (IF active # t THEN {active}
                  ELSE IF openTabs' = {} THEN {NoTab} ELSE openTabs')
  /\ last' = "tabRemoved"
  /\ UNCHANGED <<bgNext, panelBox, bgHandled, bgMsg, bgSent, bgCleared, bgResp, reported>>
  /\ UNCHANGED <<pageVars, navHist, panelVars, bootVars>>
  /\ UNCHANGED <<chatVars, seekVars, fnVars, dupVars>>

\* the user activates tab t, or focus leaves every tab (t = NoTab)
TabActivated(t) ==
  /\ t \in openTabs \cup {NoTab}
  /\ t # active
  /\ active' = t
  /\ last' = "tabActivated"
  /\ UNCHANGED <<openTabs, bgHandled, bgMsg, bgSent, bgCleared, bgResp, reported>>
  /\ UNCHANGED <<pageVars, navHist, bgVars, panelVars, bootVars>>
  /\ UNCHANGED <<chatVars, seekVars, fnVars, dupVars>>

(***************************************************************************)
(* The panel's mount effect: the state request of VideoChat.tsx            *)
(***************************************************************************)
\* what a sendMessage callback sees: runtime.lastError is set when no listener responded
ReplyTo(resp) == [lastError |-> resp = None, response |-> resp]

\* the panel mounts: handleMessage is registered and tabStateRequest is sent
PanelMounts ==
  /\ bootStage = "unmounted"
  /\ bootStage' = "tabStateRequest"
  /\ last' = "mount"
  /\ UNCHANGED <<bootReply, pageVars, navHist, bgVars, panelVars, tabVars>>
  /\ UNCHANGED <<chatVars, seekVars, fnVars, dupVars>>

\* the background listener handles the request the mount effect has sent
BgHandlesBootRequest ==
  /\ bootStage \in {"tabStateRequest", "getTranscript"}
  /\ ListenerOnPanelMessage(Msg(bootStage, NoPayload))
  /\ bootReply' = Some(ReplyTo(bgResp'))
  /\ bootStage' = IF bootStage = "tabStateRequest" THEN "tabStateReply" ELSE "getTranscriptReply"
  /\ last' = "bootRequest"
  /\ UNCHANGED bgHandled

\* the callback of the tabStateRequest
TabStateCallback ==
  /\ bootStage = "tabStateReply"
  /\ LET r == Get(bootReply) IN
       IF r.lastError
       THEN /\ bootStage' = "getTranscript"
            /\ UNCHANGED <<pageState, transcript, videoInfo>>
       ELSE /\ bootStage' = "done"
            /\ IF IsSome(r.response)
               THEN LET response == Get(r.response) IN
                      /\ pageState' = IF response.pageState # Null
                                      THEN response.pageState ELSE "no_video"
                      /\ transcript' = IF IsSome(response.transcript)
                                       THEN response.transcript ELSE transcript
                      /\ videoInfo' = IF IsSome(response.transcript)
                                      THEN Some(VideoInfoOf(Get(response.transcript)))
                                      ELSE IF response.videoId # Null
                                      THEN Some([videoId |-> response.videoId,
                                                 videoTitle |-> response.videoTitle])
                                      ELSE videoInfo
               ELSE /\ pageState' = "no_video"
                    /\ UNCHANGED <<transcript, videoInfo>>
  /\ bootReply' = None
  /\ last' = "bootCallback"
  /\ UNCHANGED <<panelNext, errorMessage, chatHistory, currentChatId>>
  /\ UNCHANGED <<pageVars, navHist, bgVars, tabVars>>
  /\ UNCHANGED <<chatVars, seekVars, fnVars, dupVars>>

\* the callback of the fallback getTranscript, were its else branch missing
GetTranscriptCallback_NoElse ==
  /\ bootStage = "getTranscriptReply"
  /\ LET resp == Get(bootReply).response IN
       IF IsSome(resp) /\ Get(resp).success /\ IsSome(Get(resp).data)
       THEN LET data == Get(Get(resp).data) IN
              /\ transcript' = Some(data)
              /\ pageState' = "ready"
              /\ videoInfo' = IF data.videoId # Null THEN Some(VideoInfoOf(data)) ELSE videoInfo
       ELSE UNCHANGED <<pageState, transcript, videoInfo>>
  /\ bootStage' = "done"
  /\ bootReply' = None
  /\ last' = "bootCallback"
  /\ UNCHANGED <<panelNext, errorMessage, chatHistory, currentChatId>>
  /\ UNCHANGED <<pageVars, navHist, bgVars, tabVars>>
  /\ UNCHANGED <<chatVars, seekVars, fnVars, dupVars>>

\* the callback of the fallback getTranscript
GetTranscriptCallback ==
  /\ bootStage = "getTranscriptReply"
  /\ LET resp == Get(bootReply).response IN
       IF IsSome(resp) /\ Get(resp).success /\ IsSome(Get(resp).data)
       THEN LET data == Get(Get(resp).data) IN
              /\ transcript' = Some(data)
              /\ pageState' = "ready"
              /\ videoInfo' = IF data.videoId # Null THEN Some(VideoInfoOf(data)) ELSE videoInfo
       ELSE /\ pageState' = "no_video"
            /\ UNCHANGED <<transcript, videoInfo>>
  /\ bootStage' = "done"
  /\ bootReply' = None
  /\ last' = "bootCallback"
  /\ UNCHANGED <<panelNext, errorMessage, chatHistory, currentChatId>>
  /\ UNCHANGED <<pageVars, navHist, bgVars, tabVars>>
  /\ UNCHANGED <<chatVars, seekVars, fnVars, dupVars>>

(***************************************************************************)
(* Tabs, background and panel together.                                    *)
(***************************************************************************)
\* the tabs, the background listeners and the messages of extension pages
NextStore ==
  \/ \E t \in Tabs : \E m \in TabMessages : TabMessageArrives(t, m)
  \/ \E m \in PanelMessages : PanelMessageArrives(m)
  \/ \E t \in Tabs : onRemoved(t)
  \/ \E t \in Tabs \cup {NoTab} : TabActivated(t)

\* a panel that mounts while the tabs report to the background and the user
\* switches tabs
NextBoot ==
  \/ \E t \in Tabs : \E m \in TabMessages : TabMessageArrives(t, m)
  \/ \E t \in Tabs \cup {NoTab} : TabActivated(t)
  \/ PanelMounts
  \/ BgHandlesBootRequest
  \/ TabStateCallback
  \/ GetTranscriptCallback

\* the page context stands still on one URL
InitStore == Init /\ url = UrlA
InitStoreTraced == InitTraced /\ url = UrlA

\* the background store, with the listener's last step recorded
SpecStore == InitStoreTraced /\ [][NextStore]_vars

\* the listener runs for every message that arrives, and every callback is called
FairBoot ==
  /\ InitStore
  /\ [][NextBoot]_vars
  /\ WF_vars(BgHandlesBootRequest)
  /\ WF_vars(TabStateCallback)
  /\ WF_vars(GetTranscriptCallback)

(***************************************************************************)
(* The panel's conversation: sendMessage, saveCurrentChat and the menu     *)
(* actions of VideoChat.tsx                                                *)
(***************************************************************************)
\* a ChatMessage (its timestamp is left out)
ChatMessageOf(role, content) == [role |-> role, content |-> content]

\* the payloads of tabActivated and refreshState: the state of the tab now shown
TabStates ==
  {[pageState |-> "ready", transcript |-> Some(Success(v)), videoId |-> v,
    videoTitle |-> TitleOf(v)] : v \in VideoIds}
    \cup {[pageState |-> "loading", transcript |-> None, videoId |-> v,
           videoTitle |-> NoTitle] : v \in VideoIds}
    \cup {[pageState |-> "no_video", transcript |-> None, videoId |-> Null,
           videoTitle |-> NoTitle]}

\* the messages pushed to the panel
PanelPushes ==
  TabMessages
    \cup {Msg("tabActivated", ts) : ts \in TabStates}
    \cup {Msg("refreshState", ts) : ts \in TabStates}

\* chats.findIndex(c => c.id === chatId), counted from 1; 0 when there is none
FindChat(chats, chatId) ==
  IF \E i \in 1..Len(chats) : chats[i].id = chatId
  THEN CHOOSE i \in 1..Len(chats) :
         /\ chats[i].id = chatId
         /\ \A j \in 1..(i - 1) : chats[j].id # chatId
  ELSE 0

\* `${videoInfo.videoId}-${Date.now()}`
NewChatId(videoId, now) == videoId \o "-" \o ToString(now)

\* slice(0, n)
Slice(seq, n) == SubSeq(seq, 1, IF Len(seq) < n THEN Len(seq) ELSE n)

\* the StoredChat built by saveCurrentChat (createdAt and updatedAt are left out)
StoredChatOf(chatId, info, messages) ==
  [id |-> chatId,
   videoId |-> info.videoId,
   videoTitle |-> IF info.videoTitle = NoTitle THEN <<"Untitled Video">> ELSE info.videoTitle,
   messages |-> messages]

\* the list, were the chat pushed at the end before trimming
SavedChats_Push(chats, info, chatId, messages) ==
  LET i == FindChat(chats, chatId)
      chat == StoredChatOf(chatId, info, messages) IN
    Slice(IF i > 0 THEN [chats EXCEPT ![i] = chat] ELSE chats \o <<chat>>, MaxStoredChats)

\* the list saveCurrentChat writes to storage
SavedChats(chats, info, chatId, messages) ==
  LET i == FindChat(chats, chatId)
      chat == StoredChatOf(chatId, info, messages) IN
    Slice(IF i > 0 THEN [chats EXCEPT ![i] = chat] ELSE <<chat>> \o chats, MaxStoredChats)

\* saveCurrentChat(messages), run with the videoInfo and currentChatId its closure holds
saveCurrentChat(info, curId, messages) ==
  IF info = None \/ Get(info).videoId = Null \/ messages = << >>
  THEN UNCHANGED <<storedChats, currentChatId, clock>>
  ELSE LET chatId == IF curId # Null THEN curId ELSE NewChatId(Get(info).videoId, clock) IN
         /\ storedChats' = SavedChats(storedChats, Get(info), chatId, messages)
         /\ currentChatId' = IF FindChat(storedChats, chatId) = 0 THEN chatId ELSE currentChatId
         /\ clock' = clock + 1

\* handleMessage is called with a pushed message m
PanelHandles(m) ==
  /\ panelHandled < MaxPush
  /\ PanelListening
  /\ handleMessage(m)
  /\ panelHandled' = panelHandled + 1
  /\ panelMsg' = Some(m)
  /\ repeated' = IF repeated = "off" THEN "off"
                 ELSE IF last = "push" /\ panelMsg = Some(m) THEN "yes" ELSE "no"
  /\ last' = "push"
  /\ UNCHANGED <<panelNext, storedChats, pending, clock, asked>>
  /\ UNCHANGED <<pageVars, navHist, bgVars, bootVars, tabVars, seekVars, fnVars>>

\* sendMessage(content) up to the await of streamChatResponse; the pending
\* request holds what the closure captured, and the tab shown at that moment
sendMessage(content) ==
  /\ asked < MaxAsk
  /\ PanelListening
  /\ content # ""
  /\ IsSome(transcript) /\ Get(transcript).success
  /\ pending = None
  /\ chatHistory' = Append(chatHistory, ChatMessageOf("user", content))
  /\ pending' = Some([newHistory |-> chatHistory', info |-> videoInfo, chatId |-> currentChatId,
                      tab |-> active])
  /\ asked' = asked + 1
  /\ last' = "ask"
  /\ UNCHANGED <<panelNext, pageState, transcript, videoInfo, errorMessage, currentChatId>>
  /\ UNCHANGED <<loadedChatVideoId, storedChats, clock, panelHandled, panelMsg>>
  /\ UNCHANGED <<pageVars, navHist, bgVars, bootVars, tabVars, seekVars, fnVars, dupVars>>

\* streamChatResponse settles: the rest of sendMessage; the chatResponse it
\* sends is handled by the background listener
streamChatResponseSettles(ok) ==
  /\ pending # None
  /\ LET c == Get(pending) IN
       IF ok
       THEN LET finalHistory == Append(c.newHistory, ChatMessageOf("assistant", "r")) IN
              /\ chatHistory' = finalHistory
              /\ saveCurrentChat(c.info, c.chatId, finalHistory)
              /\ chatHistoryStore' = ChatAppend(chatHistoryStore, active,
                                                Msg("chatResponse", [response |-> "r"]))
              /\ last' = "answer"
       ELSE /\ chatHistory' = Append(c.newHistory, ChatMessageOf("assistant", "Sorry"))
            /\ last' = "answerError"
            /\ UNCHANGED <<storedChats, currentChatId, clock, chatHistoryStore>>
  /\ pending' = None
  /\ UNCHANGED <<panelNext, pageState, transcript, videoInfo, errorMessage>>
  /\ UNCHANGED <<loadedChatVideoId, asked, panelHandled, panelMsg>>
  /\ UNCHANGED <<bgNext, transcriptStore, panelBox>>
  /\ UNCHANGED <<pageVars, navHist, bootVars, tabVars, seekVars, fnVars, dupVars>>

\* handleNewChat
handleNewChat ==
  /\ PanelListening
  /\ chatHistory' = << >>
  /\ currentChatId' = Null
  /\ last' = "newChat"
  /\ UNCHANGED <<panelNext, pageState, transcript, videoInfo, errorMessage>>
  /\ UNCHANGED <<chatVars, pageVars, navHist, bgVars, bootVars, tabVars, seekVars, fnVars, dupVars>>

\* handleLoadChat(storedChats[i])
handleLoadChat(i) ==
  /\ PanelListening
  /\ i \in 1..Len(storedChats)
  /\ chatHistory' = storedChats[i].messages
  /\ currentChatId' = storedChats[i].id
  /\ loadedChatVideoId' = IF storedChats[i].videoId # currentVideoIdRef
                          THEN storedChats[i].videoId
                          ELSE Null
  /\ last' = "loadChat"
  /\ UNCHANGED <<panelNext, pageState, transcript, videoInfo, errorMessage>>
  /\ UNCHANGED <<storedChats, pending, clock, asked, panelHandled, panelMsg>>
  /\ UNCHANGED <<pageVars, navHist, bgVars, bootVars, tabVars, seekVars, fnVars, dupVars>>

\* the open panel: pushed messages, questions and the menu
NextPanel ==
  \/ \E m \in PanelPushes : PanelHandles(m)
  \/ sendMessage("q")
  \/ \E ok \in BOOLEAN : streamChatResponseSettles(ok)
  \/ handleNewChat
  \/ \E i \in 1..Len(storedChats) : handleLoadChat(i)

\* the panel has mounted and its state request found no video
InitPanel ==
  /\ InitCommon(TRUE)
  /\ url = UrlA
  /\ bootStage = "done"
  /\ pageState = "no_video"
  /\ videoInfo = None
  /\ currentChatId = Null
  /\ storedChats = << >>
  /\ video = None
  /\ fnArg = None
  /\ repeated = "off"

SpecPanel == InitPanel /\ [][NextPanel]_vars

\* either the background store alone or the open panel alone, with repeated
\* deliveries recorded
InitDup ==
  /\ InitCommon(TRUE)
  /\ url = UrlA
  /\ bootStage \in {"unmounted", "done"}
  /\ pageState = IF bootStage = "done" THEN "no_video" ELSE "loading"
  /\ videoInfo = None
  /\ currentChatId = Null
  /\ storedChats = << >>
  /\ video = None
  /\ fnArg = None
  /\ repeated = "no"

NextDup ==
  \/ bootStage = "unmounted" /\ NextStore
  \/ bootStage = "done" /\ NextPanel

SpecDup == InitDup /\ [][NextDup]_vars

(***************************************************************************)
(* The content script's seekVideo command                                  *)
(***************************************************************************)
\* playback positions, in seconds
Positions == {0, 30, 90}

\* the payloads of a seekVideo command
SeekPayloads == {NoPayload} \cup {[seconds |-> n] : n \in Positions}

\* what document.querySelector('video') can find
VideoElements == {None} \cup {Some([currentTime |-> c, paused |-> p]) : c \in Positions, p \in BOOLEAN}

\* seekVideoToTimestamp, were play() never called
seekVideoToTimestamp_NoPlay(seconds, fulfilled) ==
  IF video # None
  THEN /\ video' = Some([Get(video) EXCEPT !.currentTime = seconds])
       /\ last' = "seek"
       /\ UNCHANGED playCalls
  ELSE /\ last' = "seekNoVideo"
       /\ UNCHANGED <<video, playCalls>>

\* seekVideoToTimestamp(seconds); the promise of play() is fulfilled or rejected
seekVideoToTimestamp(seconds, fulfilled) ==
  IF video # None
  THEN IF Get(video).paused
       THEN /\ video' = Some([currentTime |-> seconds, paused |-> ~fulfilled])
            /\ playCalls' = playCalls + 1
            /\ last' = IF fulfilled THEN "seek" ELSE "seekPlayRejected"
       ELSE /\ video' = Some([currentTime |-> seconds, paused |-> FALSE])
            /\ last' = "seek"
            /\ UNCHANGED playCalls
  ELSE /\ last' = "seekNoVideo"
       /\ UNCHANGED <<video, playCalls>>

\* the content script's listener handles seekVideo
OnSeekVideo(payload, fulfilled) ==
  /\ seeks < MaxSeek
  /\ IF "seconds" \in DOMAIN payload
     THEN seekVideoToTimestamp(payload.seconds, fulfilled)
     ELSE /\ last' = "seekIgnored"
          /\ UNCHANGED <<video, playCalls>>
  /\ seeks' = seeks + 1
  /\ seekMsg' = Some(payload)
  /\ UNCHANGED <<pageVars, navHist, bgVars, panelVars, bootVars, tabVars, chatVars, fnVars, dupVars>>

\* the viewer pauses the video
ViewerPauses ==
  /\ video # None
  /\ ~Get(video).paused
  /\ video' = Some([Get(video) EXCEPT !.paused = TRUE])
  /\ last' = "pause"
  /\ UNCHANGED <<playCalls, seeks, seekMsg>>
  /\ UNCHANGED <<pageVars, navHist, bgVars, panelVars, bootVars, tabVars, chatVars, fnVars, dupVars>>

NextSeek ==
  \/ \E payload \in SeekPayloads : \E fulfilled \in BOOLEAN : OnSeekVideo(payload, fulfilled)
  \/ ViewerPauses

\* a page with or without a video element
InitSeek ==
  /\ InitCommon(FALSE)
  /\ url = UrlA
  /\ pageState = "loading"
  /\ videoInfo = None
  /\ currentChatId = Null
  /\ bootStage = "unmounted"
  /\ storedChats = << >>
  /\ video \in VideoElements
  /\ fnArg = None
  /\ repeated = "off"

SpecSeek == InitSeek /\ [][NextSeek]_vars

(***************************************************************************)
(* The Track Selector                                                      *)
(***************************************************************************)
\* language codes, as <<family>> or <<family, region>>
LanguageCodes == {<<"en">>, <<"en", "GB">>, <<"de">>}

\* the caption tracks the locator can list
CaptionTracks == [languageCode : LanguageCodes, isAutoGenerated : BOOLEAN]

\* the lists of at most n caption tracks
TrackLists(n) == UNION {[1..k -> CaptionTracks] : k \in 0..n}

\* English: the exact code first, then the language family, then the rest
LanguageRank(code) ==
  IF code = <<"en">> THEN 0 ELSE IF code[1] = "en" THEN 1 ELSE 2

\* the rank, were the language compared before the manual status
TrackRank_LanguageFirst(track) ==
  3 * (IF track.isAutoGenerated THEN 1 ELSE 0) + 4 * LanguageRank(track.languageCode)

\* a track's place in the preference order: manual before auto-generated,
\* then by language
TrackRank(track) ==
  3 * (IF track.isAutoGenerated THEN 1 ELSE 0) + LanguageRank(track.languageCode)

\* the first-listed track of the best rank; no track to select from is a failure
SelectTrack(tracks) ==
  IF tracks = << >>
  THEN Failure("NoCaptionsAvailable")
  ELSE LET i == CHOOSE i \in 1..Len(tracks) :
                  /\ \A j \in 1..Len(tracks) : TrackRank(tracks[i]) <= TrackRank(tracks[j])
                  /\ \A j \in 1..(i - 1) : TrackRank(tracks[j]) # TrackRank(tracks[i])
       IN [success |-> TRUE, track |-> tracks[i]]

\* the selector is applied to the located tracks
Select ==
  /\ fnResult = None
  /\ fnResult' = Some(SelectTrack(Get(fnArg)))
  /\ last' = "select"
  /\ UNCHANGED fnArg
  /\ UNCHANGED <<pageVars, navHist, bgVars, panelVars, bootVars, tabVars, chatVars, seekVars, dupVars>>

NextSelect == Select

\* a page whose player response lists some caption tracks
InitSelect ==
  /\ InitCommon(FALSE)
  /\ url = UrlA
  /\ pageState = "loading"
  /\ videoInfo = None
  /\ currentChatId = Null
  /\ bootStage = "unmounted"
  /\ storedChats = << >>
  /\ video = None
  /\ fnArg \in {Some(tracks) : tracks \in TrackLists(MaxTrack)}
  /\ repeated = "off"

SpecSelect == InitSelect /\ [][NextSelect]_vars

(***************************************************************************)
(* saveCurrentChat on its own                                              *)
(***************************************************************************)
\* how many chats storage holds at the start
StoredCounts == {0, 1, MaxStoredChats - 1, MaxStoredChats}

\* the message lists saveCurrentChat is called with
SaveArgs ==
  {<< >>,
   <<ChatMessageOf("user", "q"), ChatMessageOf("assistant", "r")>>,
   <<ChatMessageOf("user", "q"), ChatMessageOf("assistant", "r"),
     ChatMessageOf("user", "q"), ChatMessageOf("assistant", "r")>>}

\* the video of the i-th chat persisted earlier
EarlierVideo(i) == IF i % 2 = 1 THEN "A" ELSE "B"

\* n chats persisted earlier, the latest first; the i-th was created at time -i
EarlierChats(n) ==
  [i \in 1..n |->
     StoredChatOf(NewChatId(EarlierVideo(i), 0 - i),
                  [videoId |-> EarlierVideo(i), videoTitle |-> TitleOf(EarlierVideo(i))],
                  <<ChatMessageOf("user", "q"), ChatMessageOf("assistant", "r")>>)]

\* saveCurrentChat(messages) is called
SaveCall(messages) ==
  /\ asked < MaxAsk
  /\ saveCurrentChat(videoInfo, currentChatId, messages)
  /\ asked' = asked + 1
  /\ fnArg' = Some(messages)
  /\ last' = "save"
  /\ UNCHANGED <<panelNext, pageState, transcript, videoInfo, errorMessage, chatHistory>>
  /\ UNCHANGED <<loadedChatVideoId, pending, panelHandled, panelMsg, fnResult>>
  /\ UNCHANGED <<pageVars, navHist, bgVars, bootVars, tabVars, seekVars, dupVars>>

NextSave ==
  \/ \E messages \in SaveArgs : SaveCall(messages)
  \/ handleNewChat

\* a panel with or without a current video, showing a new chat or one of the
\* chats persisted earlier
InitSave ==
  /\ InitCommon(FALSE)
  /\ url = UrlA
  /\ bootStage = "done"
  /\ \E n \in StoredCounts :
       /\ storedChats = EarlierChats(n)
       /\ currentChatId \in {Null} \cup {storedChats[i].id : i \in {1, n} \cap (1..n)}
  /\ videoInfo \in {None}
                    \cup {Some([videoId |-> v, videoTitle |-> NoTitle]) : v \in VideoIds}
                    \cup {Some([videoId |-> v, videoTitle |-> TitleOf(v)]) : v \in VideoIds}
  /\ pageState = IF videoInfo = None THEN "no_video" ELSE "loading"
  /\ video = None
  /\ fnArg = None
  /\ repeated = "off"

SpecSave == InitSave /\ [][NextSave]_vars

(***************************************************************************)
(* Timestamps: formatTimestamp and parseTimestampLinks of timestampUtils   *)
(* A string is a sequence of one-character strings.                        *)
(***************************************************************************)
DigitChar == <<"0", "1", "2", "3", "4", "5", "6", "7", "8", "9">>
IsDigit(c) == \E d \in 1..10 : DigitChar[d] = c
DigitValue(c) == (CHOOSE d \in 1..10 : DigitChar[d] = c) - 1

RECURSIVE toString(_)
\* Number.prototype.toString of a natural number
toString(n) ==
  IF n < 10
  THEN <<DigitChar[n + 1]>>
  ELSE toString(n \div 10) \o <<DigitChar[(n % 10) + 1]>>

\* padStart(2, '0')
padStart2(str) == IF Len(str) < 2 THEN <<"0">> \o str ELSE str

RECURSIVE parseInt(_)
\* parseInt of a string of digits
parseInt(str) ==
  IF str = << >>
  THEN 0
  ELSE 10 * parseInt(SubSeq(str, 1, Len(str) - 1)) + DigitValue(str[Len(str)])

\* formatTimestamp, were the minutes and seconds not padded
formatTimestamp_NoPad(seconds) ==
  LET hours == seconds \div 3600
      minutes == (seconds % 3600) \div 60
      secs == seconds % 60 IN
    IF hours > 0
    THEN toString(hours) \o <<":">> \o toString(minutes) \o <<":">> \o toString(secs)
    ELSE toString(minutes) \o <<":">> \o toString(secs)

\* formatTimestamp(seconds)
formatTimestamp(seconds) ==
  LET hours == seconds \div 3600
      minutes == (seconds % 3600) \div 60
      secs == seconds % 60 IN
    IF hours > 0
    THEN toString(hours) \o <<":">> \o padStart2(toString(minutes)) \o <<":">>
           \o padStart2(toString(secs))
    ELSE toString(minutes) \o <<":">> \o padStart2(toString(secs))

\* text[i..i+n-1] are n digits
DigitsAt(text, i, n) == \A k \in i..(i + n - 1) : k <= Len(text) /\ IsDigit(text[k])

\* the length of a match whose first group has n1 digits, with or without the
\* third group
MatchLength(n1, has3) == 1 + n1 + 1 + 2 + (IF has3 THEN 3 ELSE 0) + 1

\* /\[(\d{1,2}):(\d{2})(?::(\d{2}))?\]/ matches at index i with n1 digits in
\* the first group, with or without the third group
MatchesAt(text, i, n1, has3) ==
  LET j == i + 1 + n1 IN
    /\ i + MatchLength(n1, has3) - 1 <= Len(text)
    /\ text[i] = "["
    /\ DigitsAt(text, i + 1, n1)
    /\ text[j] = ":"
    /\ DigitsAt(text, j + 1, 2)
    /\ IF has3
       THEN text[j + 3] = ":" /\ DigitsAt(text, j + 4, 2) /\ text[j + 6] = "]"
       ELSE text[j + 3] = "]"

\* the ways to match, in the order the regex engine tries them: the greedy
\* \d{1,2} takes the most digits first, the optional group is tried before its
\* absence
MatchOrder ==
  LET widths == [k \in 1..MaxHourDigits |-> MaxHourDigits + 1 - k] IN
    [k \in 1..(2 * MaxHourDigits) |->
       [n1 |-> widths[(k + 1) \div 2], has3 |-> (k % 2 = 1)]]

\* the match array of timestampRegex.exec at index i; none when no way matches
ExecAt(text, i) ==
  IF \E k \in 1..Len(MatchOrder) : MatchesAt(text, i, MatchOrder[k].n1, MatchOrder[k].has3)
  THEN LET k == CHOOSE k \in 1..Len(MatchOrder) :
                  /\ MatchesAt(text, i, MatchOrder[k].n1, MatchOrder[k].has3)
                  /\ \A l \in 1..(k - 1) :
                       ~MatchesAt(text, i, MatchOrder[l].n1, MatchOrder[l].has3)
            n1 == MatchOrder[k].n1
            has3 == MatchOrder[k].has3
            j == i + 1 + n1
       IN Some([index |-> i,
                full |-> SubSeq(text, i, i + MatchLength(n1, has3) - 1),
                g1 |-> SubSeq(text, i + 1, i + n1),
                g2 |-> SubSeq(text, j + 1, j + 2),
                g3 |-> IF has3 THEN SubSeq(text, j + 4, j + 5) ELSE << >>])
  ELSE None

\* timestampRegex.exec(text) with lastIndex from: the leftmost match
Exec(text, from) ==
  IF \E i \in from..Len(text) : ExecAt(text, i) # None
  THEN ExecAt(text, CHOOSE i \in from..Len(text) :
                      /\ ExecAt(text, i) # None
                      /\ \A h \in from..(i - 1) : ExecAt(text, h) = None)
  ELSE None

\* totalSeconds of a match
TotalSeconds(match) ==
  LET hours == IF match.g3 # << >> THEN parseInt(match.g1) ELSE 0
      minutes == IF match.g3 # << >> THEN parseInt(match.g2) ELSE parseInt(match.g1)
      seconds == IF match.g3 # << >> THEN parseInt(match.g3) ELSE parseInt(match.g2) IN
    hours * 3600 + minutes * 60 + seconds

RECURSIVE PartsFrom(_, _)
\* the parts pushed by the loop of parseTimestampLinks from lastIndex on, and
\* the remaining text
PartsFrom(text, lastIndex) ==
  LET found == Exec(text, lastIndex) IN
    IF found = None
    THEN IF lastIndex <= Len(text)
         THEN <<[text |-> SubSeq(text, lastIndex, Len(text))]>>
         ELSE << >>
    ELSE LET match == Get(found) IN
           (IF match.index > lastIndex
            THEN <<[text |-> SubSeq(text, lastIndex, match.index - 1)]>>
            ELSE << >>)
             \o <<[label |-> match.full, seek |-> TotalSeconds(match)]>>
             \o PartsFrom(text, match.index + Len(match.full))

\* parseTimestampLinks(text, videoId): the text parts and the links, each link
\* with the seconds its onClick passes to seekToTimestamp
parseTimestampLinks(text) == PartsFrom(text, 1)

\* the seconds for which a timestamp is formatted and parsed back
SecondsRange == 0..(10 ^ MaxHourDigits * 3600 - 1)

\* the panel renders the text "[" + formatTimestamp(s) + "]"
RenderTimestamp ==
  /\ fnResult = None
  /\ fnResult' = Some(parseTimestampLinks(<<"[">> \o formatTimestamp(Get(fnArg)) \o <<"]">>))
  /\ last' = "render"
  /\ UNCHANGED fnArg
  /\ UNCHANGED <<pageVars, navHist, bgVars, panelVars, bootVars, tabVars, chatVars, seekVars, dupVars>>

NextTimestamp == RenderTimestamp

\* an answer cites second s of the video
InitTimestamp ==
  /\ InitCommon(FALSE)
  /\ url = UrlA
  /\ pageState = "loading"
  /\ videoInfo = None
  /\ currentChatId = Null
  /\ bootStage = "unmounted"
  /\ storedChats = << >>
  /\ video = None
  /\ fnArg \in {Some(s) : s \in SecondsRange}
  /\ repeated = "off"

SpecTimestamp == InitTimestamp /\ [][NextTimestamp]_vars

\* the open panel while the user switches between tabs
NextChat ==
  \/ NextPanel
  \/ \E t \in Tabs \cup {NoTab} : TabActivated(t)

SpecChat == InitPanel /\ [][NextChat]_vars

(***************************************************************************)
(* Properties of the page context.                                         *)
(***************************************************************************)
\* no timer is pending, no extraction is awaited, the observer has seen the URL
PageQuiescent ==
  /\ initialized
  /\ timers = 0
  /\ inflight = EmptyBag
  /\ url = lastUrl

\* C1: extractAndSendTranscript called while currentVideoId equals the video id
\* of the URL and transcriptCache is non-null starts no extraction, sends no
\* message and leaves currentVideoId and transcriptCache unchanged
C1_CachedCallIsNoOp ==
  [][(/\ timers' = timers - 1
      /\ getVideoId(url) = currentVideoId
      /\ transcriptCache # None)
     => UNCHANGED <<currentVideoId, transcriptCache, inflight, fetches, outbox>>]_vars

C1_Witness ==
  /\ last = "skip"
  /\ getVideoId(url) = currentVideoId
  /\ transcriptCache # None

\* C2: as long as the video id of the URL does not change, the extraction is
\* invoked at most once for each video id
C2_OneFetchPerVideoId ==
  ~idChanged => \A v \in VidOrNull : fetches[v] <= 1

\* C3: between an observed navigation to a video page and the end of the
\* extraction started for it, a getTranscript query is never answered with the
\* result of a video other than the one the page now shows
C3_NoStaleAnswerAfterNavigation ==
  (last = "getTranscript" /\ windowOpen)
    => ~(/\ Get(getResp).success
         /\ Get(Get(getResp).data).success
         /\ Get(Get(getResp).data).videoId # getVideoId(lastUrl))

\* C5: after a rapid navigation A, B, A (no settle timer fired before the last
\* URL change was seen) exactly one extraction runs and one result is reported
C5_OneExtractionAfterRapidNavigation ==
  (/\ navLog = <<"A", "B", "A">>
   /\ firedAtNav = 0
   /\ PageQuiescent)
    => (FetchTotal = 1 /\ Reports(outbox) = 1)

\* C6: when the observer sees the URL change to a page that is no video page,
\* the cache is cleared and a noVideoPage message is sent
C6_LeavingEmitsNoVideoPage ==
  last = "left"
    => /\ currentVideoId = Null
       /\ transcriptCache = None
       /\ Len(outbox) > 0
       /\ outbox[Len(outbox)].type = "noVideoPage"

\* C7: once the observer has seen the page leave for a URL that is no video
\* page, no extraction is started while the page stays there
C7_NoExtractionOffVideoPage ==
  [][(/\ ~isYouTubeVideoPage(url)
      /\ lastUrl = url
      /\ Len(navLog) > 1
      /\ url' = url)
     => fetches' = fetches]_vars

\* C9: every extraction that was started ends with exactly one report:
\* transcriptLoaded for a success, transcriptError for a failure or a throw
C9_OneReportPerExtraction ==
  [][InFlight' < InFlight
     => /\ Len(outbox') = Len(outbox) + 1
        /\ LET m == outbox'[Len(outbox')] IN
             /\ last' = "success" => (m.type = "transcriptLoaded" /\ m.payload.success)
             /\ last' \in {"failure", "throw"} => m.type = "transcriptError"
        /\ Reports(outbox') + InFlight' = FetchTotal']_vars

C9_Witness ==
  /\ last = "throw"
  /\ outbox[Len(outbox)].type = "transcriptError"
  /\ Reports(outbox) + InFlight = FetchTotal

SyncQuiescent ==
  /\ PageQuiescent
  /\ bgNext > Len(outbox)
  /\ panelNext > Len(panelBox)

HoldsResultOf(o, v) == IsSome(o) /\ Get(o).videoId = v

\* no result for video v was reported before the last URL change was seen
NoneReportedBeforeNav(v) ==
  \A i \in 1..outAtNav :
    ~(outbox[i].type = "transcriptLoaded" /\ outbox[i].payload.videoId = v)

\* a result for video v was reported after the last URL change was seen
ReportedAfterNav(v) ==
  \E i \in (outAtNav + 1)..Len(outbox) :
    outbox[i].type = "transcriptLoaded" /\ outbox[i].payload.videoId = v

\* C4: after the navigation A, B, A was seen and the extraction of the final A
\* succeeded, a result for B that resolves late does not end up in the page
\* cache, the background store or the panel
C4_LateResultDoesNotOverwrite ==
  (/\ navLog = <<"A", "B", "A">>
   /\ NoneReportedBeforeNav("B")
   /\ ReportedAfterNav("A")
   /\ SyncQuiescent)
    => /\ ~HoldsResultOf(transcriptCache, "B")
       /\ ~HoldsResultOf(transcriptStore[PageTab], "B")
       /\ ~HoldsResultOf(transcript, "B")

\* C8: every transcriptLoaded or transcriptError the background has handled was
\* preceded by a navigationStarted carrying a video id
C8_NavigationStartedPrecedesReport ==
  \A i \in 1..(bgNext - 1) :
    IsReport(outbox[i])
      => \E j \in 1..(i - 1) :
           /\ outbox[j].type = "navigationStarted"
           /\ outbox[j].payload.videoId \in VideoIds

\* C11: a getTranscript query that finds no cached result is answered with
\* success false and the error "No transcript available"; every query is
\* answered
C11_MissIsAnsweredUnavailable ==
  [][queries' = queries + 1
     => /\ getResp' # None
        /\ transcriptCache = None
             => Get(getResp') = [success |-> FALSE, data |-> None,
                                 error |-> "No transcript available"]]_vars

C11_Witness ==
  /\ last = "getTranscript"
  /\ transcriptCache = None
  /\ inflight # EmptyBag
  /\ getResp # None
  /\ ~Get(getResp).success
  /\ Get(getResp).error = "No transcript available"

\* C12: handling a getTranscript query starts no extraction, schedules none,
\* sends no message and leaves currentVideoId and transcriptCache unchanged; a
\* successful answer carries exactly the cached result
C12_QueryAnswersFromCacheOnly ==
  [][queries' = queries + 1
     => /\ UNCHANGED <<currentVideoId, transcriptCache, inflight, timers, fetches, outbox>>
        /\ Get(getResp').success
             => (transcriptCache # None /\ Get(getResp').data = transcriptCache)]_vars

C12_Witness ==
  /\ last = "getTranscript"
  /\ transcriptCache = None
  /\ inflight = EmptyBag
  /\ timers = 0
  /\ FetchTotal = 0
  /\ isYouTubeVideoPage(url)

(***************************************************************************)
(* Properties of the background store.                                     *)
(***************************************************************************)
\* the listener has just handled a message of type ty sent by a tab
HandledTabMessage(ty) ==
  /\ last = "tabMessage"
  /\ Get(bgMsg).type = ty

\* the listener has just handled a message of type ty sent by an extension page
HandledPanelMessage(ty) ==
  /\ last = "panelMessage"
  /\ Get(bgMsg).type = ty

\* C13: a transcriptLoaded for a tab whose stored videoId differs from the
\* incoming one leaves the tab without chat history; one with the stored
\* videoId leaves the tab's chat history as it was
C13_NewVideoClearsChatOnce ==
  [][(bgHandled' = bgHandled + 1 /\ last' = "tabMessage"
      /\ Get(bgMsg').type = "transcriptLoaded")
     => LET t == Get(bgMsg').tab
            v == Get(bgMsg').payload.videoId IN
          /\ (IsSome(transcriptStore[t]) /\ Get(transcriptStore[t]).videoId # v)
               => (chatHistoryStore'[t] = None /\ bgCleared' = IsSome(chatHistoryStore[t]))
          /\ (IsSome(transcriptStore[t]) /\ Get(transcriptStore[t]).videoId = v)
               => (chatHistoryStore'[t] = chatHistoryStore[t] /\ ~bgCleared')]_vars

C13_Witness ==
  /\ HandledTabMessage("transcriptLoaded")
  /\ bgCleared
  /\ Cardinality(reported[Get(bgMsg).tab]) = 2
  /\ chatHistoryStore[Get(bgMsg).tab] = None

\* C14: a closed tab has no stored result and no chat history, and a
\* getTranscript for it would be answered with success false
C14_ClosedTabHasNoState ==
  \A t \in Tabs \ openTabs :
    /\ transcriptStore[t] = None
    /\ chatHistoryStore[t] = None
    /\ ~BgGetTranscript(transcriptStore, t).success

C14_Witness ==
  /\ HandledPanelMessage("getTranscript")
  /\ ~Get(bgResp).success
  /\ \E t \in Tabs \ openTabs : reported[t] # {}

\* C15: a getTranscript handled right after a transcriptError of the active
\* tab is not answered with a transcript
C15_ErrorStateIsReturned ==
  [][(/\ HandledTabMessage("transcriptError")
      /\ last' = "panelMessage"
      /\ Get(bgMsg').type = "getTranscript"
      /\ Get(bgMsg').tab = Get(bgMsg).tab)
     => ~Get(bgResp').success]_vars

\* C16: whatever state event of a tab the listener handles (transcriptLoaded,
\* transcriptError, navigationStarted, noVideoPage), it sends one message of
\* the same type and payload on to the panel
C16_EveryTabEventIsRebroadcast ==
  last = "tabMessage"
    => bgSent = <<Msg(Get(bgMsg).type, Get(bgMsg).payload)>>

\* C17: a transcriptLoaded of tab t stores its payload for t and leaves the
\* stored result and the chat history of every other tab unchanged; a tab's
\* stored result is always one that this tab has reported
C17_PerTabIsolation ==
  /\ [][(bgHandled' = bgHandled + 1 /\ last' = "tabMessage"
          /\ Get(bgMsg').type = "transcriptLoaded")
         => LET t == Get(bgMsg').tab IN
              /\ transcriptStore'[t] = Some(Get(bgMsg').payload)
              /\ \A s \in Tabs \ {t} :
                    /\ transcriptStore'[s] = transcriptStore[s]
                    /\ chatHistoryStore'[s] = chatHistoryStore[s]]_vars
  /\ [](\A t \in Tabs : IsSome(transcriptStore[t]) => Get(transcriptStore[t]) \in reported[t])

C17_Witness ==
  /\ HandledTabMessage("transcriptLoaded")
  /\ \E t \in Tabs : \E s \in Tabs \ {t} :
       /\ Get(bgMsg).tab = t
       /\ IsSome(transcriptStore[t])
       /\ IsSome(transcriptStore[s])
       /\ IsSome(chatHistoryStore[s])
       /\ transcriptStore[s] # transcriptStore[t]

\* C18: once the listener has handled a navigationStarted of a tab, the store
\* holds a state for this tab that carries the event's videoId
C18_NavigationStartedCreatesState ==
  HandledTabMessage("navigationStarted")
    => /\ IsSome(transcriptStore[Get(bgMsg).tab])
       /\ Get(transcriptStore[Get(bgMsg).tab]).videoId = Get(bgMsg).payload.videoId

\* C19: the listener answers a tabStateRequest
C19_TabStateRequestIsAnswered ==
  HandledPanelMessage("tabStateRequest") => bgResp # None

(***************************************************************************)
(* Properties of the panel's mount effect.                                 *)
(***************************************************************************)
\* the reply the pending callback holds carries no transcript
NoFallbackData ==
  LET resp == Get(bootReply).response IN
    ~(IsSome(resp) /\ Get(resp).success /\ IsSome(Get(resp).data))

\* C20: once the panel has mounted and sent tabStateRequest, the request and its
\* fallback are resolved, and when no responder answered the request and the
\* fallback getTranscript brought no data the panel's pageState becomes no_video
C20_AbsentResponderEndsInNoVideo ==
  /\ (bootStage = "tabStateRequest") ~> (bootStage = "done")
  /\ [][(bootStage = "tabStateReply" /\ bootStage' # bootStage /\ Get(bootReply).lastError)
          => bootStage' = "getTranscript"]_vars
  /\ [][(bootStage = "getTranscriptReply" /\ bootStage' = "done" /\ NoFallbackData)
          => pageState' = "no_video"]_vars

C20_Witness ==
  /\ bootStage = "done"
  /\ last = "bootCallback"
  /\ pageState = "no_video"
  /\ transcript = None
  /\ bgResp # None
  /\ ~Get(bgResp).success

(***************************************************************************)
(* Properties of repeated deliveries.                                      *)
(***************************************************************************)
\* the messages a tab's content script delivers
DeliveredTypes == {"navigationStarted", "noVideoPage", "transcriptLoaded", "transcriptError"}

\* C21: when the background listener handles the same navigationStarted,
\* noVideoPage, transcriptLoaded or transcriptError of the same tab twice in a
\* row, the second handling leaves transcriptStore and chatHistoryStore as the
\* first left them; when the panel handles the same one of these messages twice
\* in a row, the second handling leaves the panel's state as the first left it
C21_SecondDeliveryChangesNothing ==
  [][/\ (/\ last = "tabMessage" /\ last' = "tabMessage"
         /\ bgHandled' = bgHandled + 1
         /\ bgMsg' = bgMsg
         /\ Get(bgMsg).type \in DeliveredTypes)
        => UNCHANGED <<transcriptStore, chatHistoryStore>>
     /\ (/\ last = "push" /\ last' = "push"
         /\ panelHandled' = panelHandled + 1
         /\ panelMsg' = panelMsg
         /\ Get(panelMsg).type \in DeliveredTypes)
        => UNCHANGED <<pageState, transcript, videoInfo, errorMessage, chatHistory,
                       currentChatId, loadedChatVideoId>>]_vars

\* the panel has handled the same transcriptError twice in a row while it
\* showed a conversation
C21_Witness ==
  /\ repeated = "yes"
  /\ last = "push"
  /\ Get(panelMsg).type = "transcriptError"
  /\ pageState = "error"
  /\ chatHistory # << >>

(***************************************************************************)
(* Properties of the conversation records.                                 *)
(***************************************************************************)
\* C22: closing a tab deletes no conversation record: the chat history the
\* background holds and the chats the panel has persisted are after the
\* tabs.onRemoved listener what they were before it
C22_TabClosureKeepsChatRecords ==
  [][last' = "tabRemoved" /\ openTabs' # openTabs
       => /\ \A t \in Tabs : IsSome(chatHistoryStore[t]) => chatHistoryStore'[t] = chatHistoryStore[t]
          /\ storedChats' = storedChats]_vars

\* message msg is in the history shown or in a persisted chat of video v
Retrievable(msg, v, shown, chats) ==
  \/ \E j \in 1..Len(shown) : shown[j] = msg
  \/ \E k \in 1..Len(chats) :
       /\ chats[k].videoId = v
       /\ \E j \in 1..Len(chats[k].messages) : chats[k].messages[j] = msg

\* C23: when the panel, with no request in flight, handles tabActivated for a
\* tab showing another video than the one of the conversation shown, every
\* message of that conversation is afterwards in chatHistory or in a persisted
\* chat of the earlier video; when it handles navigationStarted for another
\* video, chatHistory is empty afterwards
C23_TabSwitchKeepsConversation ==
  [][last' = "push" /\ panelHandled' = panelHandled + 1
       => LET m == Get(panelMsg')
              prev == currentVideoIdRef IN
            /\ (/\ m.type = "tabActivated"
                /\ pending = None
                /\ loadedChatVideoId = Null
                /\ prev # Null
                /\ m.payload.videoId \notin {Null, prev})
               => \A i \in 1..Len(chatHistory) :
                    Retrievable(chatHistory[i], prev, chatHistory', storedChats')
            /\ (/\ m.type = "navigationStarted"
                /\ m.payload.videoId \notin {Null, prev})
               => chatHistory' = << >>]_vars

(***************************************************************************)
(* Properties of the seekVideo command.                                    *)
(***************************************************************************)
\* C24: a seekVideo command whose payload has seconds, handled on a page with
\* a video element, sets currentTime to the seconds, calls play() once if the
\* video was paused (the video plays unless play() is rejected) and not at all
\* otherwise; with no video element or no seconds the command leaves the
\* element and the count of play() calls as they were
C24_SeekSetsPositionAndResumes ==
  [][seeks' = seeks + 1
       => LET p == Get(seekMsg') IN
            IF video # None /\ "seconds" \in DOMAIN p
            THEN /\ Get(video').currentTime = p.seconds
                 /\ playCalls' = playCalls + (IF Get(video).paused THEN 1 ELSE 0)
                 /\ Get(video').paused => last' = "seekPlayRejected"
            ELSE UNCHANGED <<video, playCalls>>]_vars

\* a paused video was sought to 1:30 and plays
C24_Witness ==
  /\ last = "seek"
  /\ playCalls = 1
  /\ seekMsg = Some([seconds |-> 90])
  /\ video = Some([currentTime |-> 90, paused |-> FALSE])

(***************************************************************************)
(* Properties of the Track Selector.                                       *)
(***************************************************************************)
\* C25: from a list that holds a manual track and an auto-generated track, in
\* whatever order, the selector returns a track of the list that is manual
C25_ManualTrackIsSelected ==
  (/\ last = "select"
   /\ \E i \in 1..Len(Get(fnArg)) : ~Get(fnArg)[i].isAutoGenerated
   /\ \E i \in 1..Len(Get(fnArg)) : Get(fnArg)[i].isAutoGenerated)
    => /\ Get(fnResult).success
       /\ ~Get(fnResult).track.isAutoGenerated
       /\ \E i \in 1..Len(Get(fnArg)) : Get(fnArg)[i] = Get(fnResult).track

\* an auto-generated English track is listed before a manual German one, and
\* the German one is selected
C25_Witness ==
  /\ last = "select"
  /\ Len(Get(fnArg)) >= 2
  /\ Get(fnArg)[1] = [languageCode |-> <<"en">>, isAutoGenerated |-> TRUE]
  /\ Get(fnArg)[2] = [languageCode |-> <<"de">>, isAutoGenerated |-> FALSE]
  /\ Get(fnResult).track = Get(fnArg)[2]

(***************************************************************************)
(* Properties of the panel's handleMessage.                                *)
(***************************************************************************)
PageStates == {"no_video", "loading", "ready", "error"}

\* C26: before and after every step pageState is one of no_video, loading,
\* ready and error, and
\* when the panel has handled a pushed message it is: after navigationStarted,
\* loading with no transcript; after transcriptLoaded, ready with the payload as
\* transcript and the payload's video id and title as videoInfo; after
\* transcriptError, error; after noVideoPage, no_video with neither transcript
\* nor videoInfo
C26_PageStateFollowsPushedEvents ==
  [][/\ pageState \in PageStates
     /\ pageState' \in PageStates
     /\ last' = "push" /\ panelHandled' = panelHandled + 1
          => LET m == Get(panelMsg') IN
               /\ m.type = "navigationStarted"
                    => pageState' = "loading" /\ transcript' = None
               /\ m.type = "transcriptLoaded"
                    => /\ pageState' = "ready"
                       /\ transcript' = Some(m.payload)
                       /\ videoInfo' = Some([videoId |-> m.payload.videoId,
                                             videoTitle |-> m.payload.title])
               /\ m.type = "transcriptError" => pageState' = "error"
               /\ m.type = "noVideoPage"
                    => pageState' = "no_video" /\ transcript' = None /\ videoInfo' = None]_vars

\* the panel showed a transcript and has then handled navigationStarted
C26_Witness ==
  /\ last = "push"
  /\ panelHandled >= 2
  /\ Get(panelMsg).type = "navigationStarted"
  /\ pageState = "loading"
  /\ transcript = None
  /\ chatHistory # << >>

(***************************************************************************)
(* Properties of the background's getTranscript.                           *)
(***************************************************************************)
\* C27: the background answers a getTranscript query with success true and
\* the stored result of the active tab when there is an active tab and the
\* store holds a result for it, and with success false and the error "No
\* transcript available for current tab" otherwise; handling the query leaves
\* transcriptStore and chatHistoryStore unchanged
C27_GetTranscriptAnswersFromStore ==
  [][(/\ last' = "panelMessage"
      /\ bgHandled' = bgHandled + 1
      /\ Get(bgMsg').type = "getTranscript")
       => /\ bgResp' # None
          /\ IF active # NoTab /\ transcriptStore[active] # None
             THEN Get(bgResp') = [success |-> TRUE, data |-> transcriptStore[active],
                                  error |-> Null]
             ELSE Get(bgResp') = [success |-> FALSE, data |-> None,
                                  error |-> "No transcript available for current tab"]
          /\ UNCHANGED <<transcriptStore, chatHistoryStore>>]_vars

\* the query was answered with the second tab's result while the first tab
\* holds another one
C27_Witness ==
  /\ last = "panelMessage"
  /\ Get(bgMsg).type = "getTranscript"
  /\ active = 2
  /\ Get(bgResp).success
  /\ Get(bgResp).data = transcriptStore[2]
  /\ transcriptStore[1] # None
  /\ transcriptStore[1] # transcriptStore[2]

(***************************************************************************)
(* Properties of the conversation shown.                                   *)
(***************************************************************************)
\* the pushed messages that carry a video id
CarriesVideoId == {"navigationStarted", "transcriptLoaded", "tabActivated", "refreshState"}

\* C28: handling noVideoPage or transcriptError leaves chatHistory and
\* currentChatId unchanged; a step that empties a non-empty chatHistory is the
\* New-chat action or the handling of navigationStarted, transcriptLoaded,
\* tabActivated or refreshState whose video id is not the panel's current one
C28_OnlyNewVideoOrNewChatEndsConversation ==
  [][/\ (/\ last' = "push"
         /\ panelHandled' = panelHandled + 1
         /\ Get(panelMsg').type \in {"noVideoPage", "transcriptError"})
        => UNCHANGED <<chatHistory, currentChatId>>
     /\ (chatHistory # << >> /\ chatHistory' = << >>)
        => \/ last' = "newChat"
           \/ /\ last' = "push"
              /\ panelHandled' = panelHandled + 1
              /\ Get(panelMsg').type \in CarriesVideoId
              /\ Get(panelMsg').payload.videoId \notin {Null, currentVideoIdRef}]_vars

\* the panel has handled noVideoPage and still shows the saved conversation
C28_Witness ==
  /\ last = "push"
  /\ Get(panelMsg).type = "noVideoPage"
  /\ videoInfo = None
  /\ Len(chatHistory) >= 2
  /\ currentChatId # Null

(***************************************************************************)
(* Properties of saveCurrentChat.                                          *)
(***************************************************************************)
\* C29: after each call of saveCurrentChat the persisted list holds at most
\* 50 chats; a call with a current video id and a non-empty message list leaves
\* in the list a chat with these messages, this video id and the current chat
\* id; a call without a current video id or with no messages changes neither
\* the list nor the current chat id
C29_SavedChatIsKeptWithinFifty ==
  [][last' = "save" /\ asked' = asked + 1
       => /\ Len(storedChats') <= 50
          /\ IF videoInfo # None /\ Get(fnArg') # << >>
             THEN \E i \in 1..Len(storedChats') :
                    /\ storedChats'[i].messages = Get(fnArg')
                    /\ storedChats'[i].videoId = Get(videoInfo).videoId
                    /\ storedChats'[i].id = currentChatId'
             ELSE UNCHANGED <<storedChats, currentChatId>>]_vars

\* a new chat was saved to a full list
C29_Witness ==
  /\ last = "save"
  /\ Len(storedChats) = 50
  /\ videoInfo # None
  /\ currentChatId = NewChatId(Get(videoInfo).videoId, clock - 1)
  /\ storedChats[1].id = currentChatId
  /\ storedChats[1].messages = Get(fnArg)
  /\ storedChats[50].id = NewChatId(EarlierVideo(49), 0 - 49)

(***************************************************************************)
(* Properties of the timestamps.                                           *)
(***************************************************************************)
\* C30: for every integer s from 0 up to 359999, parseTimestampLinks turns
\* the text "[" + formatTimestamp(s) + "]" into exactly one link, and the link
\* seeks to s
C30_TimestampRoundTrip ==
  last = "render"
    => /\ Len(Get(fnResult)) = 1
       /\ "seek" \in DOMAIN Get(fnResult)[1]
       /\ Get(fnResult)[1].seek = Get(fnArg)

\* second 3725 was rendered as the link [1:02:05]
C30_Witness ==
  /\ last = "render"
  /\ fnArg = Some(3725)
  /\ Get(fnResult) = <<[label |-> <<"[", "1", ":", "0", "2", ":", "0", "5", "]">>,
                        seek |-> 3725]>>

(***************************************************************************)
(* Properties of the page context's cache.                                 *)
(***************************************************************************)
\* C31: a getTranscript response of the page context has success true only
\* when the cached result is a successful extraction; with a failed result
\* cached the response is not a success
C31_SuccessOnlyForSuccessfulExtraction ==
  (last = "getTranscript" /\ Get(getResp).success)
    => (transcriptCache # None /\ Get(transcriptCache).success)

\* C32: at most one extraction awaits its result at any time
C32_AtMostOneExtractionInFlight == BagCardinality(inflight) <= 1

(***************************************************************************)
(* Properties of late answers.                                             *)
(***************************************************************************)
\* C33: when the panel has just emptied chatHistory on a navigationStarted for
\* another video than the one a pending question was asked about, the step
\* that settles the pending request puts no message of the earlier
\* conversation into chatHistory
C33_LateAnswerStaysOutAfterNavigation ==
  [][(/\ last = "push"
      /\ Get(panelMsg).type = "navigationStarted"
      /\ chatHistory = << >>
      /\ pending # None
      /\ Get(pending).info # None
      /\ Get(Get(pending).info).videoId # currentVideoIdRef
      /\ pending' = None)
       => \A i \in 1..Len(chatHistory') :
            \A j \in 1..Len(Get(pending).newHistory) :
              chatHistory'[i] # Get(pending).newHistory[j]]_vars

\* C34: the chatResponse the panel sends when its request settles, while some
\* tab is active, is appended
\* to the chat history of the tab that was shown when the question was asked,
\* and the history of every other tab stays as it was
C34_ResponseGoesToItsOwnTab ==
  [][(/\ pending # None
      /\ Get(pending).tab # NoTab
      /\ active # NoTab
      /\ last' = "answer"
      /\ pending' = None)
       => LET t == Get(pending).tab IN
            /\ chatHistoryStore'[t] # None
            /\ Get(chatHistoryStore'[t]) =
                 (IF chatHistoryStore[t] = None THEN << >> ELSE Get(chatHistoryStore[t]))
                   \o <<ChatEntry(Msg("chatResponse", [response |-> "r"]))>>
            /\ \A u \in Tabs \ {t} : chatHistoryStore'[u] = chatHistoryStore[u]]_vars

====
